---- MODULE Spec2Model ----
(***************************************************************************)
(* Model of src/app.py: a Flask application with a User table, bcrypt      *)
(* password hashing, Flask-Login sessions and a symptom page backed by an  *)
(* external text classifier.                                               *)
(*                                                                         *)
(* Every client is a browser holding one session cookie and having at most *)
(* one request in flight; requests of different clients are served by      *)
(* different request threads and interleave at the database statements.    *)
(***************************************************************************)
EXTENDS Integers, Sequences, FiniteSets, TLC

VARIABLES
    users,           \* rows of the User table (committed)
    nextId,          \* next primary key the table assigns
    plaintext,       \* history: id -> the password submitted at registration
    session,         \* per client: user id held in the session cookie, 0 = none
    pc,              \* per client: position of its request thread
    req,             \* per client: flask.request of the request in flight
    existing_email,  \* per client: register's local, id of the row found or 0
    resp,            \* the request completed last, with its client and response
    txn,             \* per client: db.session's pending (uncommitted) objects
    hf_client,       \* TRUE iff HF_TOKEN was set and the client was built
    bcrypt_strict    \* TRUE iff the installed bcrypt rejects over-long input

vars == <<users, nextId, plaintext, session, pc, req, existing_email, resp,
          txn, hf_client, bcrypt_strict>>

----------------------------------------------------------------------------
(* Bounds and input domains *)

\* cap on the primary keys handed out
MaxId == 3

\* the request threads that may run concurrently
Clients == {"c1", "c2"}
\* the browser whose whole session is followed
Browsers == {"c1"}

Emails == {"a@x.com", "b@x.com"}
Phones == {"111", "222"}
Salts == {"s1", "s2"}

\* bcrypt reads at most this many bytes of a password
BCRYPT_MAX_BYTES == 72

Short1 == <<"p", "1">>
Short2 == <<"p", "2">>
Empty == << >>
\* two passwords of 73 bytes that agree on their first 72 bytes
LongB == [i \in 1..(BCRYPT_MAX_BYTES + 1) |-> IF i <= BCRYPT_MAX_BYTES THEN "a" ELSE "b"]
LongC == [i \in 1..(BCRYPT_MAX_BYTES + 1) |-> IF i <= BCRYPT_MAX_BYTES THEN "a" ELSE "c"]

Drop(f, k) == [x \in DOMAIN f \ {k} |-> f[x]]

EmptyForm == [x \in {} |-> ""]

FullForm(e, p, pw) ==
    [name |-> "n", gender |-> "g", province |-> "pr", district |-> "d",
     sector |-> "s", email |-> e, phone |-> p, password |-> pw]

UserFields == {"name", "gender", "province", "district", "sector",
               "email", "phone", "password"}

RegisterForms ==
    {FullForm(e, p, Short1) : e \in Emails, p \in Phones}
    \cup {FullForm("a@x.com", "111", LongB), FullForm("a@x.com", "111", Empty)}
    \cup {Drop(FullForm("a@x.com", "222", Short1), k) :
             k \in {"email", "phone", "password", "name", "sector"}}

\* the forms submitted by the concurrently registering clients
RaceForms ==
    {FullForm(e, p, Short1) : e \in Emails, p \in Phones}
    \cup {Drop(FullForm("a@x.com", "222", Short1), k) : k \in {"email", "phone"}}

LoginForms ==
    {[email |-> e, password |-> pw] :
        e \in Emails, pw \in {Short1, Short2, LongB, LongC}}
    \cup {[email |-> "a@x.com"], [password |-> Short1]}

SymptomForms == {[symptoms |-> ""], [symptoms |-> "fever"], EmptyForm}

Labels == {"POSITIVE", "NEGATIVE", "NEUTRAL"}
\* classifier scores in thousandths (0.873, 0.121)
Scores == {873, 121}

NoReply == [kind |-> "none", label |-> "", score |-> 0]
ClassifierReplies ==
    {[kind |-> "ok", label |-> l, score |-> s] : l \in Labels, s \in Scores}
    \cup {[kind |-> "fault", label |-> "", score |-> 0],
          [kind |-> "malformed", label |-> "", score |-> 0]}

----------------------------------------------------------------------------
(* Flash messages and responses *)

NoFlash == "-"
FlashEmailDup == "Email already registered. Please use a different email."
FlashPhoneDup == "Phone number already registered. Please use a different phone."
FlashRegistered == "Registration successful! You can now login."
FlashRegFailed == "Registration failed. Please try again."
FlashLoginOk == "Login successful!"
FlashLoginFailed == "Login failed. Check your email/password."
FlashLoginError == "Login error. Please try again."
FlashSymptomError == "Error analyzing symptoms. Please try again."
FlashLoggedOut == "You have been logged out."
FlashLoginRequired == "Please log in to access this page."

AdvicePositive == "Seek medical attention and stay hydrated."
AdviceNegative == "Monitor your symptoms, usually mild."
AdviceFallback == "Follow general health precautions."

NoError == "-"

\* a response: what the view returned (status, target), what it flashed, the
\* exception its except clause caught, the identity current_user resolved to
\* on arrival, the result handed to the template, and the classifier's
\* reply with the number of calls made to it
Response(status, target, flash, error, caller) ==
    [status |-> status, target |-> target, flash |-> flash, error |-> error,
     caller |-> caller, result |-> {}, calls |-> 0, api |-> NoReply]

NoRequest == [route |-> "none", method |-> "GET", form |-> EmptyForm]
NoResponse == Response("none", "none", NoFlash, NoError, 0)

Request(route, method, form) ==
    [route |-> route, method |-> method, form |-> form]

----------------------------------------------------------------------------
(* Password hasher: flask_bcrypt over bcrypt *)

Min(a, b) == IF a <= b THEN a ELSE b

\* the bytes of the password that enter the digest
Truncate(pw) == SubSeq(pw, 1, Min(Len(pw), BCRYPT_MAX_BYTES))

\* bcrypt.hashpw: the digest is determined by the salt and the bytes read;
\* the salt is embedded in the output
hashpw(pw, salt) == [salt |-> salt, digest |-> Truncate(pw)]

\* bcrypt.generate_password_hash raises ValueError on an empty password, and
\* a strict bcrypt raises ValueError on more than BCRYPT_MAX_BYTES bytes
generate_password_hash_raises(pw) ==
    pw = Empty \/ (bcrypt_strict /\ Len(pw) > BCRYPT_MAX_BYTES)

check_password_hash_raises(pw) ==
    bcrypt_strict /\ Len(pw) > BCRYPT_MAX_BYTES

\* bcrypt.check_password_hash: re-hash with the stored salt and compare
check_password_hash(pw_hash, pw) == hashpw(pw, pw_hash.salt) = pw_hash

----------------------------------------------------------------------------
(* The User table *)

User(id, f, hashed_pw) ==
    [id |-> id, name |-> f.name, gender |-> f.gender, province |-> f.province,
     district |-> f.district, sector |-> f.sector, email |-> f.email,
     phone |-> f.phone, password |-> hashed_pw]

\* User.query.filter_by(email=e).first(): id of the row found, 0 for None
first_by_email(e) ==
    IF \E u \in users : u.email = e
    THEN (CHOOSE u \in users : u.email = e).id
    ELSE 0

\* User.query.filter_by(phone=p).first()
first_by_phone(p) ==
    IF \E u \in users : u.phone = p
    THEN (CHOOSE u \in users : u.phone = p).id
    ELSE 0

\* mutant: the columns declared without unique=True
NoUniqueConstraint(row) == FALSE

\* the unique=True constraints on email and on phone
UniqueViolation(row) ==
    \E u \in users : u.email = row.email \/ u.phone = row.phone

\* load_user / current_user: the row the session cookie resolves to, 0 = anonymous
load_user(user_id) ==
    IF \E u \in users : u.id = user_id THEN user_id ELSE 0

current_user(c) == IF session[c] = 0 THEN 0 ELSE load_user(session[c])

\* mutant: the except clause flushes the pending objects instead of
\* discarding them
db_rollback_flushes(c) ==
    /\ users' = users \cup {[row EXCEPT !.id = nextId] : row \in txn[c]}
    /\ txn' = [txn EXCEPT ![c] = {}]
    /\ UNCHANGED <<nextId, plaintext>>

\* db.session.rollback(): the pending objects are discarded, the table is untouched
db_rollback(c) ==
    /\ txn' = [txn EXCEPT ![c] = {}]
    /\ UNCHANGED <<users, nextId, plaintext>>

----------------------------------------------------------------------------
Init ==
    /\ users = {}
    /\ nextId = 1
    /\ plaintext = << >>
    /\ session = [c \in Clients |-> 0]
    /\ pc = [c \in Clients |-> "ready"]
    /\ req = [c \in Clients |-> NoRequest]
    /\ existing_email = [c \in Clients |-> 0]
    /\ resp = [client |-> "none", request |-> NoRequest, response |-> NoResponse]
    /\ txn = [c \in Clients |-> {}]
    /\ hf_client \in BOOLEAN
    /\ bcrypt_strict \in BOOLEAN

\* the request r of client c ends with response out; the thread's locals die
Complete(c, r, out) ==
    /\ pc' = [pc EXCEPT ![c] = "ready"]
    /\ req' = [req EXCEPT ![c] = NoRequest]
    /\ existing_email' = [existing_email EXCEPT ![c] = 0]
    /\ resp' = [client |-> c, request |-> r, response |-> out]

----------------------------------------------------------------------------
(* GET / *)

index(c) ==
    /\ pc[c] = "ready"
    /\ Complete(c, Request("index", "GET", EmptyForm),
                Response("render", "index.html", NoFlash, NoError, current_user(c)))
    /\ UNCHANGED <<users, nextId, plaintext, session, txn, hf_client, bcrypt_strict>>

----------------------------------------------------------------------------
(* /register *)

\* lines 123-128: rollback, flash, fall through to the form
register_except(c, r, err) ==
    /\ db_rollback(c)
    /\ Complete(c, r, Response("render", "register.html", FlashRegFailed, err,
                               current_user(c)))

\* mutant: the phone check placed before the email check
duplicate_check_phone_first(email_row, phone_row) ==
    IF phone_row # 0 THEN FlashPhoneDup
    ELSE IF email_row # 0 THEN FlashEmailDup
    ELSE NoFlash

\* lines 100-105: the duplicate checks, email first; the flash of the check
\* that fires, NoFlash when neither does
duplicate_check(email_row, phone_row) ==
    IF email_row # 0 THEN FlashEmailDup
    ELSE IF phone_row # 0 THEN FlashPhoneDup
    ELSE NoFlash

\* GET /register: line 128
register_get(c) ==
    /\ pc[c] = "ready"
    /\ Complete(c, Request("register", "GET", EmptyForm),
                Response("render", "register.html", NoFlash, NoError, current_user(c)))
    /\ UNCHANGED <<users, nextId, plaintext, session, txn, hf_client, bcrypt_strict>>

\* POST /register, lines 95-97: the lookup by email
register_97(c, f) ==
    /\ pc[c] = "ready"
    /\ IF "email" \notin DOMAIN f
       THEN register_except(c, Request("register", "POST", f), "KeyError")
       ELSE /\ req' = [req EXCEPT ![c] = Request("register", "POST", f)]
            /\ existing_email' = [existing_email EXCEPT ![c] = first_by_email(f.email)]
            /\ pc' = [pc EXCEPT ![c] = "reg98"]
            /\ UNCHANGED <<users, nextId, plaintext, txn, resp>>
    /\ UNCHANGED <<session, hf_client, bcrypt_strict>>

\* lines 98-119: the lookup by phone, the two checks in order, the hash and
\* db.session.add
register_98(c) ==
    /\ pc[c] = "reg98"
    /\ LET f == req[c].form IN
       IF "phone" \notin DOMAIN f
       THEN register_except(c, req[c], "KeyError")
       ELSE LET existing_phone == first_by_phone(f.phone)
                dup == duplicate_check(existing_email[c], existing_phone)
            IN IF dup # NoFlash
               THEN /\ Complete(c, req[c], Response("redirect", "register", dup,
                                                    NoError, current_user(c)))
                    /\ UNCHANGED <<users, nextId, plaintext, txn>>
               ELSE IF "password" \notin DOMAIN f
               THEN register_except(c, req[c], "KeyError")
               ELSE IF generate_password_hash_raises(f.password)
               THEN register_except(c, req[c], "ValueError")
               ELSE IF ~(UserFields \subseteq DOMAIN f)
               THEN register_except(c, req[c], "KeyError")
               ELSE \E salt \in Salts :
                      /\ txn' = [txn EXCEPT ![c] =
                                    {User(0, f, hashpw(f.password, salt))}]
                      /\ pc' = [pc EXCEPT ![c] = "reg120"]
                      /\ UNCHANGED <<users, nextId, plaintext, req,
                                     existing_email, resp>>
    /\ UNCHANGED <<session, hf_client, bcrypt_strict>>

\* line 120, the INSERT succeeds: the row gets its primary key and is committed
db_commit(c) ==
    /\ nextId <= MaxId
    /\ \A row \in txn[c] : ~UniqueViolation(row)
    /\ users' = users \cup {[row EXCEPT !.id = nextId] : row \in txn[c]}
    /\ plaintext' = Append(plaintext, req[c].form.password)
    /\ nextId' = nextId + 1
    /\ txn' = [txn EXCEPT ![c] = {}]

\* lines 120-122: commit, flash, redirect to login
register_120_ok(c) ==
    /\ pc[c] = "reg120"
    /\ db_commit(c)
    /\ Complete(c, req[c], Response("redirect", "login", FlashRegistered, NoError,
                                    current_user(c)))
    /\ UNCHANGED <<session, hf_client, bcrypt_strict>>

\* line 120 raises IntegrityError: a concurrent request committed the same
\* email or phone after this one's lookups
register_120_integrity(c) ==
    /\ pc[c] = "reg120"
    /\ \E row \in txn[c] : UniqueViolation(row)
    /\ register_except(c, req[c], "IntegrityError")
    /\ UNCHANGED <<session, hf_client, bcrypt_strict>>

\* line 120 raises OperationalError: a storage fault on the write or the commit
register_120_fault(c) ==
    /\ pc[c] = "reg120"
    /\ register_except(c, req[c], "OperationalError")
    /\ UNCHANGED <<session, hf_client, bcrypt_strict>>

----------------------------------------------------------------------------
(* /login *)

\* lines 145-148: reached when the POST block did not return
login_tail(c, flash, err) ==
    IF current_user(c) # 0
    THEN Response("redirect", "symptoms", flash, err, current_user(c))
    ELSE Response("render", "login.html", flash, err, current_user(c))

\* lines 132-143: the outcome of the POST block; uid # 0 when login_user ran
login_post(f) ==
    IF "email" \notin DOMAIN f
    THEN [uid |-> 0, flash |-> FlashLoginError, error |-> "KeyError"]
    ELSE LET user == first_by_email(f.email) IN
         IF user = 0
         THEN [uid |-> 0, flash |-> FlashLoginFailed, error |-> NoError]
         ELSE IF "password" \notin DOMAIN f
         THEN [uid |-> 0, flash |-> FlashLoginError, error |-> "KeyError"]
         ELSE IF check_password_hash_raises(f.password)
         THEN [uid |-> 0, flash |-> FlashLoginError, error |-> "ValueError"]
         ELSE IF check_password_hash(
                     (CHOOSE u \in users : u.id = user).password, f.password)
         THEN [uid |-> user, flash |-> FlashLoginOk, error |-> NoError]
         ELSE [uid |-> 0, flash |-> FlashLoginFailed, error |-> NoError]

login(c, method, f) ==
    /\ pc[c] = "ready"
    /\ IF method = "POST"
       THEN LET out == login_post(f) IN
            IF out.uid # 0
            THEN /\ session' = [session EXCEPT ![c] = out.uid]
                 /\ Complete(c, Request("login", method, f),
                             Response("redirect", "symptoms", out.flash, out.error,
                                      current_user(c)))
            ELSE /\ Complete(c, Request("login", method, f),
                             login_tail(c, out.flash, out.error))
                 /\ UNCHANGED session
       ELSE /\ Complete(c, Request("login", method, f), login_tail(c, NoFlash, NoError))
            /\ UNCHANGED session
    /\ UNCHANGED <<users, nextId, plaintext, txn, hf_client, bcrypt_strict>>

----------------------------------------------------------------------------
(* /symptoms and /logout *)

\* mutant: the view left undecorated
login_required_off(c) == TRUE

\* @login_required: the view runs only for an authenticated current_user
login_required(c) == current_user(c) # 0

\* login_manager.unauthorized(): flash and redirect to login_view
unauthorized(c) ==
    Response("redirect", "login", FlashLoginRequired, NoError, current_user(c))

\* line 159: round(score, 2), in hundredths (no score of Scores ends in 5)
Round2(score) == IF score % 10 < 5 THEN score \div 10 ELSE score \div 10 + 1

\* mutant: the two table entries exchanged
advice_mapping_swapped(label) ==
    IF label = "POSITIVE" THEN AdviceNegative
    ELSE IF label = "NEGATIVE" THEN AdvicePositive
    ELSE AdviceFallback

\* lines 161-165
advice_mapping(label) ==
    IF label = "POSITIVE" THEN AdvicePositive
    ELSE IF label = "NEGATIVE" THEN AdviceNegative
    ELSE AdviceFallback

\* mutant: a failed classifier call is repeated once before giving up
analyze_retry(f, api, who) ==
    IF "symptoms" \notin DOMAIN f
    THEN Response("render", "symptoms.html", FlashSymptomError, "KeyError", who)
    ELSE IF api.kind \in {"fault", "malformed"}
    THEN [Response("render", "symptoms.html", FlashSymptomError, "ClassifierError", who)
            EXCEPT !.calls = 2, !.api = api]
    ELSE [Response("render", "symptoms.html", NoFlash, NoError, who)
            EXCEPT !.calls = 1, !.api = api,
                   !.result = {[label |-> api.label, score |-> Round2(api.score),
                                first_aid |-> AdviceFallback]}]

\* lines 155-171: the try block of a POST with hf_client set; api is what
\* hf_client.text_classification does on this call
analyze(f, api, who) ==
    IF "symptoms" \notin DOMAIN f
    THEN Response("render", "symptoms.html", FlashSymptomError, "KeyError", who)
    ELSE IF api.kind = "fault"
    THEN [Response("render", "symptoms.html", FlashSymptomError, "ClassifierError", who)
            EXCEPT !.calls = 1, !.api = api]
    ELSE IF api.kind = "malformed"
    THEN [Response("render", "symptoms.html", FlashSymptomError, "IndexError", who)
            EXCEPT !.calls = 1, !.api = api]
    ELSE [Response("render", "symptoms.html", NoFlash, NoError, who)
            EXCEPT !.calls = 1, !.api = api,
                   !.result = {[label |-> api.label, score |-> Round2(api.score),
                                first_aid |-> advice_mapping(api.label)]}]

symptoms(c, method, f) ==
    /\ pc[c] = "ready"
    /\ IF ~login_required(c)
       THEN Complete(c, Request("symptoms", method, f), unauthorized(c))
       ELSE IF method = "POST" /\ hf_client
       THEN \E api \in ClassifierReplies :
              Complete(c, Request("symptoms", method, f),
                       analyze(f, api, current_user(c)))
       ELSE Complete(c, Request("symptoms", method, f),
                     Response("render", "symptoms.html", NoFlash, NoError,
                              current_user(c)))
    /\ UNCHANGED <<users, nextId, plaintext, session, txn, hf_client, bcrypt_strict>>

\* lines 173-178
logout(c) ==
    /\ pc[c] = "ready"
    /\ IF ~login_required(c)
       THEN /\ Complete(c, Request("logout", "GET", EmptyForm), unauthorized(c))
            /\ UNCHANGED session
       ELSE /\ session' = [session EXCEPT ![c] = 0]
            /\ Complete(c, Request("logout", "GET", EmptyForm),
                        Response("redirect", "login", FlashLoggedOut, NoError,
                                 current_user(c)))
    /\ UNCHANGED <<users, nextId, plaintext, txn, hf_client, bcrypt_strict>>

----------------------------------------------------------------------------
(* Specifications *)

\* the whole application as one browser drives it; its requests follow one
\* another, so no commit of its own can meet a row inserted after its lookups
Next ==
    \E c \in Browsers :
        \/ index(c)
        \/ register_get(c)
        \/ \E f \in RegisterForms : register_97(c, f)
        \/ register_98(c)
        \/ register_120_ok(c)
        \/ register_120_fault(c)
        \/ login(c, "GET", EmptyForm)
        \/ \E f \in LoginForms : login(c, "POST", f)
        \/ symptoms(c, "GET", EmptyForm)
        \/ \E f \in SymptomForms : symptoms(c, "POST", f)
        \/ logout(c)

Spec == Init /\ [][Next]_vars

\* register requests of several clients, interleaved at the database statements
NextRegister ==
    \E c \in Clients :
        \/ register_get(c)
        \/ \E f \in RaceForms : register_97(c, f)
        \/ register_98(c)
        \/ register_120_ok(c)
        \/ register_120_integrity(c)
        \/ register_120_fault(c)

\* no request of this specification reaches the classifier client
InitRegister == Init /\ ~hf_client

SpecRegister == InitRegister /\ [][NextRegister]_vars

----------------------------------------------------------------------------
(* Properties *)

\* the last completed request was a POST to route
Posted(route) ==
    resp.request.route = route /\ resp.request.method = "POST"

\* client c completes a POST /register in this step
RegisterEnds(c) ==
    /\ pc'[c] = "ready"
    /\ pc[c] # "ready" \/ resp' # resp
    /\ resp'.client = c
    /\ resp'.request.route = "register"
    /\ resp'.request.method = "POST"

\* C1: in every reachable state, whatever the interleaving of the register
\* requests, no two User rows share an email and no two share a phone.
C1_UniqueEmailAndPhone ==
    \A u, v \in users :
        u # v => u.email # v.email /\ u.phone # v.phone

\* C1 witness: two rows are stored and a concurrent insert has just been refused
C1_Witness ==
    /\ Cardinality(users) = 2
    /\ resp.response.error = "IntegrityError"

\* C2 as stated: every register request whose email lookup finds a row ends
\* with the duplicate-email notice; otherwise, one whose phone is in the store
\* ends with the duplicate-phone notice; neither changes the table.
C2_Original ==
    [][\A c \in Clients :
         (pc[c] = "reg98" /\ RegisterEnds(c)) =>
            /\ existing_email[c] # 0 =>
                   resp'.response.flash = FlashEmailDup /\ users' = users
            /\ ( /\ existing_email[c] = 0
                 /\ "phone" \in DOMAIN req[c].form
                 /\ \E u \in users : u.phone = req[c].form.phone ) =>
                   resp'.response.flash = FlashPhoneDup /\ users' = users]_vars

\* C2 amended: every register POST that submits both email and phone applies
\* the checks in the order email, phone: when its email lookup finds a row it
\* ends with the duplicate-email notice; otherwise, when its phone lookup
\* finds a row, with the duplicate-phone notice; in both cases it leaves the
\* table as it was.
C2_ChecksInOrder ==
    [][\A c \in Clients :
         ( /\ pc[c] = "reg98"
           /\ RegisterEnds(c)
           /\ "phone" \in DOMAIN req[c].form ) =>
            /\ existing_email[c] # 0 =>
                   resp'.response.flash = FlashEmailDup /\ users' = users
            /\ ( /\ existing_email[c] = 0
                 /\ \E u \in users : u.phone = req[c].form.phone ) =>
                   resp'.response.flash = FlashPhoneDup /\ users' = users]_vars

\* C2 witness: a request whose email and whose phone are both stored was
\* answered with the duplicate-email notice
C2_Witness ==
    /\ Posted("register")
    /\ {"email", "phone"} \subseteq DOMAIN resp.request.form
    /\ \E u \in users : u.email = resp.request.form.email
    /\ \E u \in users : u.phone = resp.request.form.phone
    /\ resp.response.flash = FlashEmailDup

\* C3 as stated: for a user registered with email e and password p, a login
\* with (e, q) establishes a session iff q = p, the session resolves to that
\* user, and a login with q # p ends with the invalid-credentials notice.
C3_LoginIffPassword ==
    ( /\ Posted("login")
      /\ {"email", "password"} \subseteq DOMAIN resp.request.form ) =>
        \A u \in users :
            u.email = resp.request.form.email =>
                LET p == plaintext[u.id]
                    q == resp.request.form.password
                    established == resp.response.flash = FlashLoginOk
                IN /\ established <=> q = p
                   /\ established => session[resp.client] = u.id
                   /\ q # p => resp.response.flash = FlashLoginFailed

\* C4: a GET or POST to /symptoms whose session resolves to no identity is
\* redirected to /login without a classifier call or an advice result; and
\* after a logout the session resolves to no identity.
C4_SymptomsGuarded ==
    /\ ( resp.request.route = "symptoms" /\ resp.response.caller = 0 ) =>
          /\ resp.response.status = "redirect"
          /\ resp.response.target = "login"
          /\ resp.response.calls = 0
          /\ resp.response.result = {}
    /\ ( resp.request.route = "logout" /\ resp.response.caller # 0 ) =>
          current_user(resp.client) = 0

\* C4 witness: an anonymous POST with a symptom text, the classifier client
\* being configured and a user being registered
C4_Witness ==
    /\ Posted("symptoms")
    /\ resp.response.caller = 0
    /\ resp.request.form = [symptoms |-> "fever"]
    /\ hf_client
    /\ users # {}

\* C5 as stated: a register request whose insert the unique constraint
\* refuses ends with the same notice as a sequential duplicate.
C5_SameErrorKind ==
    ( Posted("register") /\ resp.response.error = "IntegrityError" ) =>
        resp.response.flash =
            IF \E u \in users : u.email = resp.request.form.email
            THEN FlashEmailDup
            ELSE FlashPhoneDup

\* C6: a register POST that does not succeed leaves the table as it was,
\* leaves nothing pending in its transaction and ends with a notice in an
\* ordinary response; and no step of a request still in flight changes the
\* table.
C6_FailedRegisterLeavesStore ==
    [][\A c \in Clients :
         /\ ( RegisterEnds(c) /\ resp'.response.flash # FlashRegistered ) =>
               /\ users' = users
               /\ txn'[c] = {}
               /\ resp'.response.flash \in
                      {FlashRegFailed, FlashEmailDup, FlashPhoneDup}
               /\ resp'.response.status \in {"render", "redirect"}
         /\ pc'[c] \in {"reg98", "reg120"} /\ pc'[c] # pc[c] => users' = users]_vars

\* C6 witness: a commit has just failed on a storage fault
C6_Witness ==
    /\ Posted("register")
    /\ resp.response.error = "OperationalError"
    /\ resp.response.flash = FlashRegFailed

\* C7 as stated: a login request presented with a valid session is a no-op
\* redirect to /symptoms: no verification result, no new session, the same
\* identity afterwards.
C7_LoginNoOpWhenAuthenticated ==
    ( resp.request.route = "login" /\ resp.response.caller # 0 ) =>
        /\ resp.response.status = "redirect"
        /\ resp.response.target = "symptoms"
        /\ resp.response.flash = NoFlash
        /\ session[resp.client] = resp.response.caller

\* C8 as stated: an authenticated POST to /symptoms with an empty text makes
\* no classifier call, produces no advice and renders the page without error.
C8_EmptyTextSkipsCall ==
    ( /\ Posted("symptoms")
      /\ resp.response.caller # 0
      /\ resp.request.form = [symptoms |-> ""] ) =>
        /\ resp.response.calls = 0
        /\ resp.response.result = {}
        /\ resp.response.flash = NoFlash
        /\ resp.response.status = "render"

\* C9: an authenticated POST to /symptoms calls the classifier at most once;
\* when the call fails the page is still rendered, with no advice and with
\* the notice.
C9_AtMostOneCall ==
    ( Posted("symptoms") /\ resp.response.caller # 0 ) =>
        /\ resp.response.calls <= 1
        /\ resp.response.api.kind \in {"fault", "malformed"} =>
              /\ resp.response.status = "render"
              /\ resp.response.target = "symptoms.html"
              /\ resp.response.result = {}
              /\ resp.response.flash = FlashSymptomError

\* C9 witness: the one call of an authenticated request failed
C9_Witness ==
    /\ Posted("symptoms")
    /\ resp.response.caller # 0
    /\ resp.response.calls = 1
    /\ resp.response.api.kind = "fault"

\* C10: the advice of a result is decided by the classifier's label alone:
\* POSITIVE, NEGATIVE and any other label give the three fixed messages, and
\* the result carries the classifier's label.
C10_AdviceByLabel ==
    \A r \in resp.response.result :
        /\ r.label = resp.response.api.label
        /\ r.label = "POSITIVE" => r.first_aid = AdvicePositive
        /\ r.label = "NEGATIVE" => r.first_aid = AdviceNegative
        /\ r.label \notin {"POSITIVE", "NEGATIVE"} => r.first_aid = AdviceFallback

\* C10 witness: results for a label outside the table and for one inside it
\* have been produced
C10_Witness ==
    \E r \in resp.response.result :
        r.label = "NEUTRAL" /\ r.first_aid = AdviceFallback

====
